---- MODULE Spec2Model ----
(***************************************************************************)
(* PathFinder route resolution: the directions service                     *)
(* (src/src/services/directionsService.ts) and the state of the directions *)
(* screen that drives it (DirectionsPage, latest revision).                *)
(*                                                                         *)
(* Coordinates are fixed-point integers in units of 1e-5 degree, the unit  *)
(* of the polyline encoding: <<latitude, longitude>>.  JavaScript's null   *)
(* for an object is the empty tuple, for a string the value NullText.      *)
(* Every normalized route carries, in raw, the provider's route element it  *)
(* was made from.                                                          *)
(***************************************************************************)
EXTENDS Integers, Sequences, FiniteSets, TLC

\* ------------------------------------------------------------------ bounds
\* Provider resolutions (service calls) issued in one run.
MaxCalls == 3
\* Routes in one provider response.
MaxRoutes == 2

\* --------------------------------------------------------------- constants
NULL == <<>>
NullText == "null"

TRAVEL_MODES == {"driving", "walking", "bicycling", "transit"}
AVOID_OPTIONS == {"tolls", "highways", "ferries"}

\* 0.001 degree, in units of 1e-5 degree.
TooCloseThreshold == 100

\* Places the user can pick as origin and as destination: a base point, a
\* point 0.00092 degree from it, a point 0.00108 degree from it, and a point
\* 0.9 degree away on one axis.
OriginPlaces == {<<0, 0>>}
DestinationPlaces == {<<0, 0>>, <<60, 70>>, <<60, 90>>, <<0, 90000>>}

\* str.includes(needle)
Includes(str, needle) ==
    \E i \in 1..(Len(str) - Len(needle) + 1) :
        SubSeq(str, i, i + Len(needle) - 1) = needle

\* ------------------------------------------------------- 32-bit arithmetic
\* The operands of the ECMAScript bitwise operators are 32-bit signed
\* integers (two's complement); the operators below stay within that range.

\* a | b
RECURSIVE BitOr(_, _)
BitOr(a, b) ==
    IF a = 0 THEN b
    ELSE IF b = 0 THEN a
    ELSE IF a = -1 \/ b = -1 THEN -1
    ELSE (IF a % 2 = 1 \/ b % 2 = 1 THEN 1 ELSE 0)
         + 2 * BitOr(a \div 2, b \div 2)

\* a << 1: bit 30 becomes the sign bit, bit 31 is dropped.
Double32(a) ==
    LET low30 == a % 1073741824
        bit30 == (a \div 1073741824) % 2
    IN 2 * (low30 - bit30 * 1073741824)

\* a << s: the shift count is taken modulo 32.
RECURSIVE ShiftLeftBy(_, _)
ShiftLeftBy(a, n) == IF n = 0 THEN a ELSE ShiftLeftBy(Double32(a), n - 1)
ShiftLeft(a, s) == ShiftLeftBy(a, s % 32)

\* a >> 1 (sign-propagating)
ShiftRight1(a) == a \div 2
\* ~a
BitNot(a) == -a - 1
\* a & 0x1f
And1f(a) == a % 32
\* a & 1
And1(a) == a % 2

\* ------------------------------------------------------------ decodePolyline
\* A JavaScript string handed to charCodeAt is the sequence of its character
\* codes.  CodeUnits gives that sequence for a string written with the
\* characters of code 32..95 and 97..126 (Ascii lists them in code order).
AsciiLow == " !\"#$%&'()*+,-./0123456789:;<=>?@ABCDEFGHIJKLMNOPQRSTUVWXYZ[\\]^_"
AsciiHigh == "abcdefghijklmnopqrstuvwxyz{|}~"

CodeOf(c) ==
    IF \E k \in 1..Len(AsciiLow) : SubSeq(AsciiLow, k, k) = c
    THEN 31 + (CHOOSE k \in 1..Len(AsciiLow) : SubSeq(AsciiLow, k, k) = c)
    ELSE 96 + (CHOOSE k \in 1..Len(AsciiHigh) : SubSeq(AsciiHigh, k, k) = c)

CodeUnits(str) == [i \in 1..Len(str) |-> CodeOf(SubSeq(str, i, i))]

\* encoded.charCodeAt(index) for a 0-based index; NaN (here -1) past the end.
NaN == -1
CharCodeAt(encoded, index) ==
    IF index >= Len(encoded) THEN NaN ELSE encoded[index + 1]

\* One do-while loop of decodePolyline: reads 5-bit groups from index on and
\* returns the accumulated result and the index after the last group read.
\* NaN - 63 is NaN: NaN & 0x1f is 0 and NaN >= 0x20 is false.
RECURSIVE ReadGroups(_, _, _, _)
ReadGroups(encoded, index, shift, result) ==
    LET code == CharCodeAt(encoded, index)
        isNaN == code = NaN
        b == code - 63
        low == IF isNaN THEN 0 ELSE And1f(b)
        r == BitOr(result, ShiftLeft(low, shift))
    IN IF ~isNaN /\ b >= 32
       THEN ReadGroups(encoded, index + 1, shift + 5, r)
       ELSE [result |-> r, index |-> index + 1]

\* A decoder that takes every group value for a positive delta.
UnZigZagUnsigned(result) == ShiftRight1(result)

\* result & 1 ? ~(result >> 1) : result >> 1
UnZigZag(result) ==
    IF And1(result) = 1 THEN BitNot(ShiftRight1(result))
    ELSE ShiftRight1(result)

RECURSIVE DecodeFrom(_, _, _, _)
DecodeFrom(encoded, index, lat, lng) ==
    IF index >= Len(encoded) THEN <<>>
    ELSE LET g1 == ReadGroups(encoded, index, 0, 0)
             lat2 == lat + UnZigZag(g1.result)
             g2 == ReadGroups(encoded, g1.index, 0, 0)
             lng2 == lng + UnZigZag(g2.result)
         IN <<<<lat2, lng2>>>> \o DecodeFrom(encoded, g2.index, lat2, lng2)

\* The decoded points, each <<latitude, longitude>> in units of 1e-5 degree
\* (the code divides the accumulators by 1e5).
decodePolyline(encoded) == DecodeFrom(encoded, 0, 0, 0)

\* ---------------------------------------------------------------- formatting
Plural(n) == IF n > 1 THEN "s" ELSE ""

\* A formatDuration that writes the minutes of every duration of an hour or
\* more.
formatDurationWithMinutes(seconds) ==
    LET hours == seconds \div 3600
        minutes == (seconds % 3600) \div 60
    IN IF hours > 0
       THEN ToString(hours) \o " hour" \o Plural(hours) \o " "
            \o ToString(minutes) \o " min" \o Plural(minutes)
       ELSE ToString(minutes) \o " min" \o Plural(minutes)

formatDuration(seconds) ==
    LET hours == seconds \div 3600
        minutes == (seconds % 3600) \div 60
    IN IF hours > 0
       THEN IF minutes > 0
            THEN ToString(hours) \o " hour" \o Plural(hours) \o " "
                 \o ToString(minutes) \o " min" \o Plural(minutes)
            ELSE ToString(hours) \o " hour" \o Plural(hours)
       ELSE ToString(minutes) \o " min" \o Plural(minutes)

\* The binary exponent of meters / 1000 for meters >= 1000, from e on.
RECURSIVE BinaryExponent(_, _)
BinaryExponent(meters, e) ==
    IF 2000 * (2 ^ e) <= meters THEN BinaryExponent(meters, e + 1) ELSE e

RECURSIVE Pow2Mod1000(_)
Pow2Mod1000(k) == IF k = 0 THEN 1 ELSE (2 * Pow2Mod1000(k - 1)) % 1000

\* The double meters / 1000 compared with the quotient it was rounded from:
\* the remainder of meters * 2^(52 - e) by 1000 is 0 when the quotient is a
\* double, below 500 when the double is the smaller neighbour, above 500
\* when it is the larger one (500 itself does not occur: a quotient halfway
\* between two doubles would be a double).
QuotientRemainder(meters) ==
    ((meters % 1000) * Pow2Mod1000(52 - BinaryExponent(meters, 0))) % 1000

\* (meters / 1000).toFixed(1) for an integer number of meters >= 1000: the
\* tenths nearest to the double meters / 1000, the larger of two equally
\* near.  Only a quotient that ends in 5 hundredths is near two tenths, and
\* then the double decides: it is that quotient, or lies below or above it.
ToFixed1Km(meters) ==
    LET tenths == IF meters % 100 # 50 THEN (meters + 50) \div 100
                  ELSE IF QuotientRemainder(meters) = 0
                          \/ QuotientRemainder(meters) > 500
                  THEN meters \div 100 + 1
                  ELSE meters \div 100
    IN ToString(tenths \div 10) \o "." \o ToString(tenths % 10)

\* A formatDistance that switches to kilometres above 1000 m only.
formatDistanceAbove(meters) ==
    IF meters > 1000 THEN ToFixed1Km(meters) \o " km"
    ELSE ToString(meters) \o " m"

formatDistance(meters) ==
    IF meters >= 1000 THEN ToFixed1Km(meters) \o " km"
    ELSE ToString(meters) \o " m"

\* route.duration.replace("s", ""): the first "s" removed.
RECURSIVE ReplaceFirstS(_)
ReplaceFirstS(str) ==
    IF Len(str) = 0 THEN ""
    ELSE IF SubSeq(str, 1, 1) = "s" THEN SubSeq(str, 2, Len(str))
    ELSE SubSeq(str, 1, 1) \o ReplaceFirstS(SubSeq(str, 2, Len(str)))

Digits == "0123456789"
IsDigit(c) == \E k \in 1..10 : SubSeq(Digits, k, k) = c
DigitValue(c) == (CHOOSE k \in 1..10 : SubSeq(Digits, k, k) = c) - 1

\* parseInt of a string of digits followed by anything (no sign, no blanks).
RECURSIVE ParseDigits(_, _)
ParseDigits(str, acc) ==
    IF Len(str) = 0 \/ ~IsDigit(SubSeq(str, 1, 1)) THEN acc
    ELSE ParseDigits(SubSeq(str, 2, Len(str)),
                     10 * acc + DigitValue(SubSeq(str, 1, 1)))

parseInt(str) == ParseDigits(str, 0)

\* The documented encoding of one signed value: shifted left by one bit and
\* inverted when negative, then cut into 5-bit groups, lowest first, each
\* with 0x20 set when another group follows, each offset by 63.
ZigZag(v) == IF v < 0 THEN -(2 * v) - 1 ELSE 2 * v

RECURSIVE EncodeGroups(_)
EncodeGroups(n) ==
    IF n >= 32 THEN <<(n % 32) + 32 + 63>> \o EncodeGroups(n \div 32)
    ELSE <<n + 63>>

\* The documented encoding of a list of points in units of 1e-5 degree:
\* each point as the difference to the point before it (to <<0, 0>> for the
\* first), latitude then longitude.
RECURSIVE EncodeFrom(_, _, _)
EncodeFrom(coords, lat, lng) ==
    IF Len(coords) = 0 THEN <<>>
    ELSE EncodeGroups(ZigZag(coords[1][1] - lat))
         \o EncodeGroups(ZigZag(coords[1][2] - lng))
         \o EncodeFrom(Tail(coords), coords[1][1], coords[1][2])

EncodePolyline(coords) == EncodeFrom(coords, 0, 0)

\* ------------------------------------------------------ provider payloads
\* Route elements a Routes v2 response can carry.  An absent or empty
\* polyline is <<>>, an absent duration or description is "", an absent
\* distanceMeters is 0: each is falsy in the code's "!field" tests.
ModernRouteCatalog ==
    { [polyline |-> [encodedPolyline |-> CodeUnits("_p~iF~ps|U")],
       duration |-> "1500s", distanceMeters |-> 1500, description |-> "US-101 N"],
      [polyline |-> [encodedPolyline |-> CodeUnits("_ulLnnqC")],
       duration |-> "5400s", distanceMeters |-> 500, description |-> ""],
      [polyline |-> [encodedPolyline |-> <<>>],
       duration |-> "1500s", distanceMeters |-> 1500, description |-> ""],
      [polyline |-> [encodedPolyline |-> CodeUnits("_p~iF~ps|U")],
       duration |-> "", distanceMeters |-> 1500, description |-> ""],
      [polyline |-> [encodedPolyline |-> CodeUnits("_p~iF~ps|U")],
       duration |-> "3600s", distanceMeters |-> 0, description |-> ""] }

\* The routes arrays of a 2xx Routes v2 response (<<>>: absent or empty).
ModernResponses ==
    UNION { [1..n -> ModernRouteCatalog] : n \in 0..MaxRoutes }

\* Rejections of axios.post: no response at all, a response whose body
\* carries an error object with or without a message, a response without one.
ModernRejections ==
    { [message |-> "Network Error", hasResponse |-> FALSE, status |-> 0,
       hasError |-> FALSE, apiMessage |-> ""],
      [message |-> "Request failed with status code 403", hasResponse |-> TRUE,
       status |-> 403, hasError |-> TRUE,
       apiMessage |-> "Routes API has not been used in project"],
      [message |-> "Request failed with status code 400", hasResponse |-> TRUE,
       status |-> 400, hasError |-> TRUE, apiMessage |-> ""],
      [message |-> "Request failed with status code 502", hasResponse |-> TRUE,
       status |-> 502, hasError |-> FALSE, apiMessage |-> ""] }

\* Route elements of a Directions response; legs[0] is flattened, an absent
\* summary is "", an absent duration_in_traffic is NullText.
LegacyRouteCatalog ==
    { [summary |-> "I-280 S", distanceText |-> "1.6 km", durationText |-> "26 mins",
       trafficText |-> "31 mins", points |-> CodeUnits("_ulLnnqC")],
      [summary |-> "", distanceText |-> "0.5 km", durationText |-> "1 hour 31 mins",
       trafficText |-> NullText, points |-> CodeUnits("_p~iF~ps|U")] }

\* The bodies of a Directions response: routes with status OK, or no routes
\* because the provider found none or refused the request; error_message is
\* "" when the body has none.
LegacyResponses ==
    { [status |-> "OK", routes |-> r, errorMessage |-> ""] :
        r \in UNION { [1..n -> LegacyRouteCatalog] : n \in 1..MaxRoutes } }
    \cup { [status |-> "ZERO_RESULTS", routes |-> <<>>, errorMessage |-> ""],
           [status |-> "REQUEST_DENIED", routes |-> <<>>,
            errorMessage |-> "The provided API key is invalid."] }

\* Rejections of axios.get.
LegacyRejections == {"Network Error"}

\* ------------------------------------------------------------- the service
NoError == [message |-> "", hasResponse |-> FALSE, status |-> 0,
            hasError |-> FALSE, apiMessage |-> ""]

ThrownError(msg) == [message |-> msg, hasResponse |-> FALSE, status |-> 0,
                     hasError |-> FALSE, apiMessage |-> ""]

\* A request body that always carries the routeModifiers object.
buildRouteRequestWithModifiers(o, d, mode, av, computeAlternativeRoutes) ==
    [origin |-> o, destination |-> d,
     travelMode |-> CASE mode = "driving" -> "DRIVE"
                      [] mode = "walking" -> "WALK"
                      [] mode = "bicycling" -> "BICYCLE"
                      [] mode = "transit" -> "TRANSIT"
                      [] OTHER -> "DRIVE",
     computeAlternativeRoutes |-> computeAlternativeRoutes,
     hasRouteModifiers |-> TRUE,
     routeModifiers |->
        [avoidTolls |-> \E i \in 1..Len(av) : av[i] = "tolls",
         avoidHighways |-> \E i \in 1..Len(av) : av[i] = "highways",
         avoidFerries |-> \E i \in 1..Len(av) : av[i] = "ferries"]]

buildRouteRequest(o, d, mode, av, computeAlternativeRoutes) ==
    [origin |-> o, destination |-> d,
     travelMode |-> CASE mode = "driving" -> "DRIVE"
                      [] mode = "walking" -> "WALK"
                      [] mode = "bicycling" -> "BICYCLE"
                      [] mode = "transit" -> "TRANSIT"
                      [] OTHER -> "DRIVE",
     computeAlternativeRoutes |-> computeAlternativeRoutes,
     hasRouteModifiers |-> Len(av) > 0,
     routeModifiers |->
        IF Len(av) > 0
        THEN [avoidTolls |-> \E i \in 1..Len(av) : av[i] = "tolls",
              avoidHighways |-> \E i \in 1..Len(av) : av[i] = "highways",
              avoidFerries |-> \E i \in 1..Len(av) : av[i] = "ferries"]
        ELSE [avoidTolls |-> FALSE, avoidHighways |-> FALSE, avoidFerries |-> FALSE]]

\* The query of the Directions request.
LegacyQuery(o, d, mode, av, alternatives) ==
    [origin |-> o, destination |-> d, mode |-> mode, alternatives |-> alternatives,
     avoid |-> av, departureNow |-> mode = "driving"]

\* The per-route validation of getRoutesWithAlternatives: the message of
\* the error thrown for the route at 0-based position idx, "" when none is.
AlternativeRouteError(route, idx) ==
    IF route.polyline.encodedPolyline = <<>>
    THEN "Route " \o ToString(idx + 1) \o " has invalid polyline data"
    ELSE IF route.duration = ""
    THEN "Route " \o ToString(idx + 1) \o " has invalid duration data"
    ELSE IF route.distanceMeters = 0
    THEN "Route " \o ToString(idx + 1) \o " has invalid distance data"
    ELSE ""

\* A normalization that numbers the alternatives from 1.
NormalizeModernOneBased(route, idx) ==
    [polyline |-> decodePolyline(route.polyline.encodedPolyline),
     distance |-> formatDistance(route.distanceMeters),
     duration |-> formatDuration(parseInt(ReplaceFirstS(route.duration))),
     trafficDuration |-> NullText,
     summary |-> IF route.description # "" THEN route.description
                 ELSE "Route " \o ToString(idx + 1),
     routeIndex |-> idx + 1,
     raw |-> route]

NormalizeModern(route, idx) ==
    [polyline |-> decodePolyline(route.polyline.encodedPolyline),
     distance |-> formatDistance(route.distanceMeters),
     duration |-> formatDuration(parseInt(ReplaceFirstS(route.duration))),
     trafficDuration |-> NullText,
     summary |-> IF route.description # "" THEN route.description
                 ELSE "Route " \o ToString(idx + 1),
     routeIndex |-> idx,
     raw |-> route]

\* A routes.map whose callback leaves out the routes that fail validation
\* and normalizes the others.
MapModernRoutesSkipping(rs) ==
    LET good == SelectSeq(rs, LAMBDA r : AlternativeRouteError(r, 0) = "")
    IN [ok |-> TRUE, message |-> "",
        value |-> [i \in 1..Len(good) |-> NormalizeModern(good[i], i - 1)]]

\* routes.map of getRoutesWithAlternatives: the callback runs on the routes
\* in order and the first error it throws ends the map.
MapModernRoutes(rs) ==
    LET bad == {i \in 1..Len(rs) : AlternativeRouteError(rs[i], i - 1) # ""}
    IN IF bad = {}
       THEN [ok |-> TRUE, message |-> "",
             value |-> [i \in 1..Len(rs) |-> NormalizeModern(rs[i], i - 1)]]
       ELSE LET k == CHOOSE i \in bad : \A j \in bad : i <= j
            IN [ok |-> FALSE, message |-> AlternativeRouteError(rs[k], k - 1),
                value |-> <<>>]

\* A try block without the test for an empty routes array.
AlternativesFromModernUnchecked(rs) == MapModernRoutes(rs)

\* The body of the try block of getRoutesWithAlternatives after the await.
AlternativesFromModern(rs) ==
    IF Len(rs) = 0
    THEN [ok |-> FALSE, message |-> "No routes found", value |-> <<>>]
    ELSE MapModernRoutes(rs)

\* The body of the try block of getRouteBetweenPoints after the await: only
\* routes[0] is validated and returned, as a one-element list here.
SingleFromModern(rs) ==
    IF Len(rs) = 0
    THEN [ok |-> FALSE, message |-> "No routes found", value |-> <<>>]
    ELSE LET route == rs[1]
         IN IF route.polyline.encodedPolyline = <<>>
            THEN [ok |-> FALSE, value |-> <<>>,
                  message |-> "Invalid route response: missing polyline"]
            ELSE IF route.duration = ""
            THEN [ok |-> FALSE, value |-> <<>>,
                  message |-> "Invalid route response: missing duration"]
            ELSE IF route.distanceMeters = 0
            THEN [ok |-> FALSE, value |-> <<>>,
                  message |-> "Invalid route response: missing distance"]
            ELSE [ok |-> TRUE, message |-> "",
                  value |-> << [polyline |-> decodePolyline(route.polyline.encodedPolyline),
                                distance |-> formatDistance(route.distanceMeters),
                                duration |-> formatDuration(
                                    parseInt(ReplaceFirstS(route.duration))),
                                raw |-> route] >>]

NormalizeLegacy(route, idx) ==
    [polyline |-> decodePolyline(route.points),
     distance |-> route.distanceText,
     duration |-> route.durationText,
     trafficDuration |-> route.trafficText,
     summary |-> IF route.summary # "" THEN route.summary
                 ELSE "Route " \o ToString(idx + 1),
     routeIndex |-> idx,
     raw |-> route]

\* getRoutesWithLegacyAPI after the await.
getRoutesWithLegacyAPI(response) ==
    IF Len(response.routes) = 0
    THEN [ok |-> FALSE, message |-> "No routes found (Legacy API)", value |-> <<>>]
    ELSE [ok |-> TRUE, message |-> "",
          value |-> [i \in 1..Len(response.routes) |->
                        NormalizeLegacy(response.routes[i], i - 1)]]

\* A catch block that keeps the routes the try block had normalized before
\* its validation failed and appends the legacy routes to them.
FallbackResultMerged(fn, modernRoutes, legacyRoutes) ==
    LET bad == {i \in 1..Len(modernRoutes) :
                   AlternativeRouteError(modernRoutes[i], i - 1) # ""}
        kept == {i \in 1..Len(modernRoutes) : \A j \in bad : i < j}
    IN [i \in kept |-> NormalizeModern(modernRoutes[i], i - 1)] \o legacyRoutes

\* What the catch block of each entry point returns once the legacy routes
\* are there: the legacy routes alone (their first one for the single-route
\* entry point); what the failed try block had received is not used.
FallbackResult(fn, modernRoutes, legacyRoutes) ==
    IF fn = "getRouteBetweenPoints" THEN <<legacyRoutes[1]>> ELSE legacyRoutes

\* The three functions above, tabulated over the payloads.
AlternativesOutcome == [rs \in ModernResponses |-> AlternativesFromModern(rs)]
SingleOutcome == [rs \in ModernResponses |-> SingleFromModern(rs)]
LegacyOutcome == [response \in LegacyResponses |-> getRoutesWithLegacyAPI(response)]

\* A catch block that throws the fallback's error on.
FallbackMessageOnly(fn, error, fallbackMessage) == fallbackMessage

\* The message of the error thrown when the fallback failed too.
AggregatedMessageOf(fn, error, fallbackMessage) ==
    IF fn = "getRoutesWithAlternatives" /\ error.hasResponse /\ error.hasError
    THEN "Routes API Error: "
         \o (IF error.apiMessage # "" THEN error.apiMessage ELSE "Unknown error")
         \o " (Status: "
         \o (IF error.status # 0 THEN ToString(error.status) ELSE "Unknown")
         \o "). Legacy fallback also failed: " \o fallbackMessage
    ELSE "Both APIs failed. Routes API: " \o error.message
         \o ", Legacy API: " \o fallbackMessage

\* What a try block can throw, what the fallback can throw, and the messages
\* of the errors that reach the caller.
ModernErrors ==
    ModernRejections
    \cup {ThrownError(AlternativesOutcome[rs].message) : rs \in ModernResponses}
    \cup {ThrownError(SingleOutcome[rs].message) : rs \in ModernResponses}
FallbackMessages ==
    LegacyRejections \cup {LegacyOutcome[r].message : r \in LegacyResponses}
ServiceFunctions == {"getRoutesWithAlternatives", "getRouteBetweenPoints"}

\* AggregatedMessageOf, tabulated.
AggregatedMessages ==
    [fn \in ServiceFunctions, error \in ModernErrors, m \in FallbackMessages |->
        AggregatedMessageOf(fn, error, m)]
AggregatedMessage(fn, error, fallbackMessage) ==
    AggregatedMessages[fn, error, fallbackMessage]

\* errorMessage.includes("No routes found"), tabulated.
MentionsNoRoutes ==
    [m \in {AggregatedMessages[k] : k \in DOMAIN AggregatedMessages} |->
        Includes(m, "No routes found")]

\* ------------------------------------------------------- the distance guard
Abs(v) == IF v < 0 THEN -v ELSE v

\* Math.sqrt(a * a + b * b) < t for a, b >= 0: the square root is increasing,
\* so the test is made on the squares; a summand of t or more decides it
\* without being squared.
SqrtOfSquaresBelow(a, b, t) == a < t /\ b < t /\ a * a + b * b < t * t

\* A guard that measures the separation on the latitude axis alone.
TooCloseLatitudeOnly(o, d) == Abs(o[1] - d[1]) < TooCloseThreshold

\* approxDistance < 0.001
TooClose(o, d) ==
    LET latDiff == Abs(o[1] - d[1])
        lngDiff == Abs(o[2] - d[2])
    IN SqrtOfSquaresBelow(latDiff, lngDiff, TooCloseThreshold)

\* The catch block's test for the automatic switch to driving.
ShouldAutoSwitch(mode, errorMessage) ==
    mode # "driving" /\ MentionsNoRoutes[errorMessage]

\* ------------------------------------------------------------------- state
VARIABLES
    origin,            \* NULL or the origin coordinate
    destination,       \* NULL or the destination coordinate
    travelMode,        \* the selected travel mode
    avoid,             \* the avoid list, in the order the options were added
    routes,            \* the alternatives of the last successful resolution
    selectedRouteIdx,  \* 0-based index of the selected alternative
    routePolyline,     \* the displayed polyline
    routeDistance,     \* the displayed distance, or NullText
    routeDuration,     \* the displayed duration, or NullText
    routeLoading,      \* the loading flag
    snackbarMessage,   \* the text of the last notification
    calls,             \* the service calls awaiting a provider, by call id
    net,               \* the HTTP requests in flight
    nextId,            \* the id of the next service call
    done,              \* the service call the last step ended and how it
                       \* ended; NoCall when the last step ended none
    effect,            \* the branch of the route-fetching effect the last
                       \* step ran and the id of the call it started
    util               \* a utility function applied on its own: its name,
                       \* its argument and its result

uiVars == <<origin, destination, travelMode, avoid, routes, selectedRouteIdx,
            routePolyline, routeDistance, routeDuration, routeLoading,
            snackbarMessage>>
sysVars == <<origin, destination, travelMode, avoid, routes, selectedRouteIdx,
             routePolyline, routeDistance, routeDuration, routeLoading,
             snackbarMessage, calls, net, nextId, done, effect>>
vars == <<sysVars, util>>

NoCall ==
    [id |-> 0, fn |-> "", caller |-> "", cause |-> "", origin |-> NULL,
     destination |-> NULL, mode |-> "", avoid |-> <<>>, outcome |-> "none",
     provider |-> "none", value |-> <<>>, message |-> "", error |-> NoError,
     fallbackMessage |-> "", modernCalls |-> 0, legacyCalls |-> 0,
     modernResponded |-> FALSE,
     modernRoutes |-> <<>>, legacyStatus |-> "", legacyRoutes |-> <<>>,
     legacyErrorMessage |-> "", switched |-> FALSE, notice |-> ""]

\* The last step did not run the route-fetching effect.
NoEffect == [branch |-> "none", started |-> 0]

\* No utility function was applied on its own.
NoUtil == [fn |-> "none", stage |-> "none", arg |-> <<>>, encoded |-> <<>>,
           result |-> <<>>]

\* The screen as constructed, no call made.
Idle ==
    /\ origin = NULL
    /\ destination = NULL
    /\ travelMode = "driving"
    /\ avoid = <<>>
    /\ routes = <<>>
    /\ selectedRouteIdx = 0
    /\ routePolyline = <<>>
    /\ routeDistance = NullText
    /\ routeDuration = NullText
    /\ routeLoading = FALSE
    /\ snackbarMessage = ""
    /\ calls = <<>>
    /\ net = {}
    /\ nextId = 1
    /\ done = NoCall
    /\ effect = NoEffect

Init == Idle /\ util = NoUtil

\* The state a render of the screen works on.
Ui ==
    [travelMode |-> travelMode, routes |-> routes,
     selectedRouteIdx |-> selectedRouteIdx, routePolyline |-> routePolyline,
     routeDistance |-> routeDistance, routeDuration |-> routeDuration,
     routeLoading |-> routeLoading, snackbarMessage |-> snackbarMessage]

hasRoute == routeDistance # NullText /\ routeDuration # NullText /\ ~routeLoading

\* showSnackbar: the message shown (its 3-second timer only hides it).
showSnackbar(ui, message) == [ui EXCEPT !.snackbarMessage = message]

\* A route-fetching effect without the distance guard.
RouteEffectUnguarded(ui, o, d) ==
    IF o = NULL \/ d = NULL
    THEN [ui |-> [ui EXCEPT !.routes = <<>>, !.selectedRouteIdx = 0,
                            !.routePolyline = <<>>, !.routeDistance = NullText,
                            !.routeDuration = NullText],
          start |-> FALSE, branch |-> "clear"]
    ELSE [ui |-> [ui EXCEPT !.routeLoading = TRUE], start |-> TRUE,
          branch |-> "fetch"]

\* A route-fetching effect that calls the service whether or not it has both
\* points.
RouteEffectUnvalidated(ui, o, d) ==
    IF o # NULL /\ d # NULL /\ TooClose(o, d)
    THEN [ui |-> [showSnackbar(ui, "Destination is too close to starting point")
                    EXCEPT !.routes = <<>>, !.routePolyline = <<>>,
                           !.routeDistance = NullText, !.routeDuration = NullText,
                           !.routeLoading = FALSE],
          start |-> FALSE, branch |-> "tooClose"]
    ELSE [ui |-> [ui EXCEPT !.routeLoading = TRUE], start |-> TRUE,
          branch |-> "fetch"]

\* The route-fetching effect run with the values o, d of a render: the clear
\* branch, or fetchRoutesWithAlternatives up to its await.  start tells
\* whether getRoutesWithAlternatives is called, branch which branch ran.
RouteEffect(ui, o, d) ==
    IF o = NULL \/ d = NULL
    THEN [ui |-> [ui EXCEPT !.routes = <<>>, !.selectedRouteIdx = 0,
                            !.routePolyline = <<>>, !.routeDistance = NullText,
                            !.routeDuration = NullText],
          start |-> FALSE, branch |-> "clear"]
    ELSE IF TooClose(o, d)
    THEN [ui |-> [showSnackbar(ui, "Destination is too close to starting point")
                    EXCEPT !.routes = <<>>, !.routePolyline = <<>>,
                           !.routeDistance = NullText, !.routeDuration = NullText,
                           !.routeLoading = FALSE],
          start |-> FALSE, branch |-> "tooClose"]
    ELSE [ui |-> [ui EXCEPT !.routeLoading = TRUE], start |-> TRUE,
          branch |-> "fetch"]

\* The dependency list of the route-fetching effect.
RouteEffectDeps == {"origin", "destination", "travelMode", "avoid"}

\* The effects of the render that follows a handler which set the state
\* named in changed: the route-fetching effect runs when one of its
\* dependencies changed.
AfterRender(ui, changed, o, d) ==
    IF changed \cap RouteEffectDeps # {} THEN RouteEffect(ui, o, d)
    ELSE [ui |-> ui, start |-> FALSE, branch |-> "none"]

Without(cs, id) == [i \in (DOMAIN cs) \ {id} |-> cs[i]]

\* An entry point that sends the requests to both providers at once.
StartCallBoth(cs, nt, fn, caller, cause, o, d, mode, av) ==
    /\ nextId <= MaxCalls
    /\ calls' = [i \in (DOMAIN cs) \cup {nextId} |->
                   IF i = nextId
                   THEN [fn |-> fn, caller |-> caller, cause |-> cause,
                         origin |-> o, destination |-> d, mode |-> mode,
                         avoid |-> av, pc |-> "modern", error |-> NoError,
                         modernRoutes |-> <<>>, modernResponded |-> FALSE,
                         modernCalls |-> 1,
                         legacyCalls |-> 0]
                   ELSE cs[i]]
    /\ net' = nt \cup {[call |-> nextId, provider |-> "modern",
                        request |-> buildRouteRequest(o, d, mode, av,
                                        fn = "getRoutesWithAlternatives")],
                       [call |-> nextId, provider |-> "legacy",
                        request |-> LegacyQuery(o, d, mode, av,
                                        fn = "getRoutesWithAlternatives")]}
    /\ nextId' = nextId + 1

\* A service entry point up to its first await: the Routes v2 request is out.
StartCall(cs, nt, fn, caller, cause, o, d, mode, av) ==
    /\ nextId <= MaxCalls
    /\ calls' = [i \in (DOMAIN cs) \cup {nextId} |->
                   IF i = nextId
                   THEN [fn |-> fn, caller |-> caller, cause |-> cause,
                         origin |-> o, destination |-> d, mode |-> mode,
                         avoid |-> av, pc |-> "modern", error |-> NoError,
                         modernRoutes |-> <<>>, modernResponded |-> FALSE,
                         modernCalls |-> 1,
                         legacyCalls |-> 0]
                   ELSE cs[i]]
    /\ net' = nt \cup {[call |-> nextId, provider |-> "modern",
                        request |-> buildRouteRequest(o, d, mode, av,
                                        fn = "getRoutesWithAlternatives")]}
    /\ nextId' = nextId + 1

\* The state after a handler, its render and the effects of that render.
Commit(e, o, d, av, cs, nt, cause) ==
    /\ origin' = o
    /\ destination' = d
    /\ avoid' = av
    /\ travelMode' = e.ui.travelMode
    /\ routes' = e.ui.routes
    /\ selectedRouteIdx' = e.ui.selectedRouteIdx
    /\ routePolyline' = e.ui.routePolyline
    /\ routeDistance' = e.ui.routeDistance
    /\ routeDuration' = e.ui.routeDuration
    /\ routeLoading' = e.ui.routeLoading
    /\ snackbarMessage' = e.ui.snackbarMessage
    /\ effect' = [branch |-> e.branch, started |-> IF e.start THEN nextId ELSE 0]
    /\ UNCHANGED util
    /\ IF e.start
       THEN StartCall(cs, nt, "getRoutesWithAlternatives", "page", cause,
                      o, d, e.ui.travelMode, av)
       ELSE calls' = cs /\ net' = nt /\ nextId' = nextId

\* ------------------------------------------------------ the user's actions
\* getCurrentLocation succeeding: setOrigin(currentCoord).
GetCurrentLocation(c) ==
    /\ Commit(AfterRender(Ui, {"origin"}, c, destination), c, destination, avoid,
              calls, net, "user")
    /\ done' = NoCall

\* handlePlaceSelected for a searched place: setOrigin or setDestination.
HandlePlaceSelected(searchType, c) ==
    /\ IF searchType = "from"
       THEN Commit(AfterRender(Ui, {"origin"}, c, destination), c, destination, avoid,
                   calls, net, "user")
       ELSE Commit(AfterRender(Ui, {"destination"}, origin, c), origin, c, avoid,
                   calls, net, "user")
    /\ done' = NoCall

\* handleMapPress: setDestination(e.nativeEvent.coordinate).
HandleMapPress(c) ==
    /\ Commit(AfterRender(Ui, {"destination"}, origin, c), origin, c, avoid,
              calls, net, "user")
    /\ done' = NoCall

\* A travel-mode option pressed: setTravelMode(mode).  The options are
\* rendered while hasRoute holds.
PressTravelMode(mode) ==
    /\ hasRoute
    /\ Commit(AfterRender([Ui EXCEPT !.travelMode = mode],
                          IF mode # travelMode THEN {"travelMode"} ELSE {},
                          origin, destination),
              origin, destination, avoid, calls, net, "user")
    /\ done' = NoCall

ToggleAvoidOption(av, opt) ==
    IF \E i \in 1..Len(av) : av[i] = opt
    THEN SelectSeq(av, LAMBDA a : a # opt)
    ELSE Append(av, opt)

\* An avoid option pressed: setAvoid with a new array.
PressAvoidOption(opt) ==
    /\ hasRoute
    /\ Commit(AfterRender(Ui, {"avoid"}, origin, destination),
              origin, destination, ToggleAvoidOption(avoid, opt), calls, net, "user")
    /\ done' = NoCall

\* handleSelectRoute(idx): the index is set first; reading routes[idx] of an
\* index outside the list throws a TypeError before the display is set.
handleSelectRoute(ui, idx) ==
    IF idx >= 0 /\ idx < Len(ui.routes)
    THEN [ui EXCEPT !.selectedRouteIdx = idx,
                    !.routePolyline = ui.routes[idx + 1].polyline,
                    !.routeDistance = ui.routes[idx + 1].distance,
                    !.routeDuration = ui.routes[idx + 1].duration]
    ELSE [ui EXCEPT !.selectedRouteIdx = idx]

\* A handler that resolves the routes again after it selected one.
SelectRouteRefetching(idx) ==
    /\ Commit(RouteEffect(handleSelectRoute(Ui, idx), origin, destination),
              origin, destination, avoid, calls, net, "user")
    /\ done' = NoCall

\* handleSelectRoute(idx) invoked, and the render that follows.
SelectRoute(idx) ==
    /\ Commit(AfterRender(handleSelectRoute(Ui, idx),
                          {"selectedRouteIdx", "routePolyline", "routeDistance",
                           "routeDuration"},
                          origin, destination),
              origin, destination, avoid, calls, net, "user")
    /\ done' = NoCall

\* An option of the alternatives selector pressed: the selector is rendered
\* while hasRoute holds and there are several routes, one option per route.
PressRouteOption(idx) ==
    /\ hasRoute
    /\ Len(routes) > 1
    /\ idx \in 0..(Len(routes) - 1)
    /\ SelectRoute(idx)

\* resetRoute, behind the Reset button rendered while hasRoute holds.
resetRoute ==
    /\ hasRoute
    /\ Commit(AfterRender([Ui EXCEPT !.routes = <<>>, !.selectedRouteIdx = 0,
                                     !.routePolyline = <<>>,
                                     !.routeDistance = NullText,
                                     !.routeDuration = NullText],
                          {"routes", "selectedRouteIdx", "routePolyline",
                           "routeDistance", "routeDuration"}
                            \cup (IF destination # NULL THEN {"destination"} ELSE {}),
                          origin, NULL),
              origin, NULL, avoid, calls, net, "user")
    /\ done' = NoCall

\* An entry point of the service called by a caller other than this screen,
\* which awaits each call before it makes the next.
CallService(fn, o, d, mode, av) ==
    /\ DOMAIN calls = {}
    /\ StartCall(calls, net, fn, "direct", "user", o, d, mode, av)
    /\ done' = NoCall
    /\ effect' = NoEffect
    /\ UNCHANGED util
    /\ UNCHANGED uiVars

\* -------------------------------------------------- the providers answer
\* No Directions response: the request was not made, or it was rejected.
NoLegacy == [status |-> "", routes |-> <<>>, errorMessage |-> ""]

ModernRequestOf(id) == {r \in net : r.call = id /\ r.provider = "modern"}
LegacyRequestOf(id) == {r \in net : r.call = id /\ r.provider = "legacy"}

Ended(id, outcome, provider, value, message, fallbackMessage, modernRoutes, legacy, switched, notice) ==
    [id |-> id, fn |-> calls[id].fn, caller |-> calls[id].caller,
     cause |-> calls[id].cause, origin |-> calls[id].origin,
     destination |-> calls[id].destination, mode |-> calls[id].mode,
     avoid |-> calls[id].avoid, outcome |-> outcome, provider |-> provider,
     value |-> value, message |-> message, error |-> calls[id].error,
     fallbackMessage |-> fallbackMessage, modernCalls |-> calls[id].modernCalls,
     legacyCalls |-> calls[id].legacyCalls,
     modernResponded |-> provider = "modern" \/ calls[id].modernResponded,
     modernRoutes |-> modernRoutes, legacyStatus |-> legacy.status,
     legacyRoutes |-> legacy.routes, legacyErrorMessage |-> legacy.errorMessage,
     switched |-> switched, notice |-> notice]

\* A success branch that leaves the selected index as it was.
FetchSucceededKeepingIndex(ui, alternatives) ==
    [ui EXCEPT !.routes = alternatives,
               !.routePolyline = alternatives[1].polyline,
               !.routeDistance = alternatives[1].distance,
               !.routeDuration = alternatives[1].duration,
               !.routeLoading = FALSE]

\* fetchRoutesWithAlternatives after its await returned alternatives: the
\* success branch and the finally block.
FetchSucceeded(ui, alternatives) ==
    [ui EXCEPT !.routes = alternatives, !.selectedRouteIdx = 0,
               !.routePolyline = alternatives[1].polyline,
               !.routeDistance = alternatives[1].distance,
               !.routeDuration = alternatives[1].duration,
               !.routeLoading = FALSE]

\* A catch block that shows the error's message whatever it does next.
CatchNoticeGeneric(mode, errorMessage) == errorMessage

\* The message the catch block of fetchRoutesWithAlternatives hands to
\* showSnackbar.
CatchNotice(mode, errorMessage) ==
    IF ShouldAutoSwitch(mode, errorMessage)
    THEN "No " \o mode \o " routes found. Trying driving mode..."
    ELSE errorMessage

\* A catch block that shows its message and ends the loading state but
\* leaves the route on the screen.
FetchFailedKeepingRoute(ui, mode, errorMessage) ==
    [(IF ShouldAutoSwitch(mode, errorMessage)
      THEN showSnackbar([ui EXCEPT !.travelMode = "driving"],
                        CatchNotice(mode, errorMessage))
      ELSE showSnackbar(ui, CatchNotice(mode, errorMessage)))
        EXCEPT !.routeLoading = FALSE]

\* fetchRoutesWithAlternatives after its await threw: the catch block, with
\* the travel mode its closure holds, and the finally block.
FetchFailed(ui, mode, errorMessage) ==
    [(IF ShouldAutoSwitch(mode, errorMessage)
      THEN showSnackbar([ui EXCEPT !.travelMode = "driving"],
                        CatchNotice(mode, errorMessage))
      ELSE showSnackbar(ui, CatchNotice(mode, errorMessage)))
        EXCEPT !.routes = <<>>, !.routePolyline = <<>>,
               !.routeDistance = NullText, !.routeDuration = NullText,
               !.routeLoading = FALSE]

\* A service call returns value to its caller; modernRoutes is the routes
\* array of the Routes v2 response, if there was one.
Return(id, provider, value, modernRoutes, legacy) ==
    /\ done' = Ended(id, "returned", provider, value, "", "", modernRoutes, legacy,
                     FALSE, "")
    /\ IF calls[id].caller = "page"
       THEN Commit(AfterRender(FetchSucceeded(Ui, value),
                               {"routes", "selectedRouteIdx", "routePolyline",
                                "routeDistance", "routeDuration", "routeLoading"},
                               origin, destination),
                   origin, destination, avoid, Without(calls, id),
                   {r \in net : r.call # id}, "user")
       ELSE /\ calls' = Without(calls, id)
            /\ net' = {r \in net : r.call # id}
            /\ effect' = NoEffect
            /\ UNCHANGED util
            /\ UNCHANGED <<uiVars, nextId>>

\* A service call throws the aggregated error to its caller.
Throw(id, fallbackMessage, legacy) ==
    LET c == calls[id]
        message == AggregatedMessage(c.fn, c.error, fallbackMessage)
        switched == ShouldAutoSwitch(c.mode, message)
        e == AfterRender(FetchFailed(Ui, c.mode, message),
                         {"routes", "routePolyline", "routeDistance",
                          "routeDuration", "routeLoading", "snackbarMessage"}
                           \cup (IF switched /\ travelMode # "driving"
                                 THEN {"travelMode"} ELSE {}),
                         origin, destination)
    IN IF c.caller = "page"
       THEN /\ done' = Ended(id, "thrown", "none", <<>>, message, fallbackMessage,
                             c.modernRoutes, legacy, switched,
                             CatchNotice(c.mode, message))
            /\ Commit(e, origin, destination, avoid, Without(calls, id),
                      {r \in net : r.call # id}, "autoSwitch")
       ELSE /\ done' = Ended(id, "thrown", "none", <<>>, message, fallbackMessage,
                             c.modernRoutes, legacy, FALSE, "")
            /\ calls' = Without(calls, id)
            /\ net' = {r \in net : r.call # id}
            /\ effect' = NoEffect
            /\ UNCHANGED util
            /\ UNCHANGED <<uiVars, nextId>>

\* The catch block of an entry point up to its await: the Directions request
\* is out.  error is what the try block threw, responded whether axios.post
\* had resolved, modernRoutes the routes it had resolved with (<<>> when it
\* was rejected).
TryLegacy(id, error, responded, modernRoutes) ==
    /\ calls' = [calls EXCEPT ![id].pc = "legacy", ![id].error = error,
                              ![id].modernResponded = responded,
                              ![id].modernRoutes = modernRoutes,
                              ![id].legacyCalls = @ + 1]
    /\ net' = (net \ ModernRequestOf(id))
              \cup {[call |-> id, provider |-> "legacy",
                     request |-> LegacyQuery(calls[id].origin, calls[id].destination,
                                    calls[id].mode, calls[id].avoid,
                                    calls[id].fn = "getRoutesWithAlternatives")]}
    /\ done' = NoCall
    /\ effect' = NoEffect
    /\ UNCHANGED util
    /\ UNCHANGED <<uiVars, nextId>>

\* axios.post rejects.
ModernRejects(id, error) ==
    /\ id \in DOMAIN calls
    /\ calls[id].pc = "modern"
    /\ ModernRequestOf(id) # {}
    /\ TryLegacy(id, error, FALSE, <<>>)

\* axios.post resolves with a 2xx response whose routes array is rs.
ModernResponds(id, rs) ==
    /\ id \in DOMAIN calls
    /\ calls[id].pc = "modern"
    /\ ModernRequestOf(id) # {}
    /\ LET r == IF calls[id].fn = "getRoutesWithAlternatives"
                THEN AlternativesOutcome[rs] ELSE SingleOutcome[rs]
       IN IF r.ok THEN Return(id, "modern", r.value, rs, NoLegacy)
          ELSE TryLegacy(id, ThrownError(r.message), TRUE, rs)

\* A catch block that sends the Directions request a second time when the
\* first one is rejected.
LegacyRejectsRetried(id, message) ==
    /\ id \in DOMAIN calls
    /\ calls[id].pc = "legacy"
    /\ LegacyRequestOf(id) # {}
    /\ IF calls[id].legacyCalls < 2
       THEN TryLegacy(id, calls[id].error, calls[id].modernResponded,
                      calls[id].modernRoutes)
       ELSE Throw(id, message, NoLegacy)

\* axios.get rejects.
LegacyRejects(id, message) ==
    /\ id \in DOMAIN calls
    /\ calls[id].pc = "legacy"
    /\ LegacyRequestOf(id) # {}
    /\ Throw(id, message, NoLegacy)

\* axios.get resolves with the body response.
LegacyResponds(id, response) ==
    /\ id \in DOMAIN calls
    /\ calls[id].pc = "legacy"
    /\ LegacyRequestOf(id) # {}
    /\ LET r == LegacyOutcome[response]
       IN IF r.ok
          THEN Return(id, "legacy",
                      FallbackResult(calls[id].fn, calls[id].modernRoutes, r.value),
                      calls[id].modernRoutes,
                      response)
          ELSE Throw(id, r.message, response)

\* ------------------------------------------------------------ specification
\* The options the user presses, and what the providers answer to the
\* screen's resolutions: a rejection without response, no routes or two
\* routes from Routes v2; two routes, or none for either reason, from
\* Directions.
PageModernRejections == {e \in ModernRejections : ~e.hasResponse}
PageModes == {"driving", "walking", "bicycling"}
PageAvoidOptions == {"tolls"}
PageModernResponses ==
    {rs \in ModernResponses :
        \/ Len(rs) = 0
        \/ /\ Len(rs) = 2
           /\ \A i \in 1..2 : /\ AlternativeRouteError(rs[i], i - 1) = ""
                              /\ (i = 1) = (rs[i].description # "")}
PageLegacyResponses ==
    {response \in LegacyResponses :
        \/ Len(response.routes) = 0
        \/ /\ Len(response.routes) = 2
           /\ \A i \in 1..2 : (i = 1) = (response.routes[i].summary # "")}

\* The directions screen and the providers.
Next ==
    \/ \E c \in OriginPlaces : GetCurrentLocation(c)
    \/ \E c \in OriginPlaces : HandlePlaceSelected("from", c)
    \/ \E c \in DestinationPlaces : HandlePlaceSelected("to", c)
    \/ \E c \in DestinationPlaces : HandleMapPress(c)
    \/ \E mode \in PageModes : PressTravelMode(mode)
    \/ \E opt \in PageAvoidOptions : PressAvoidOption(opt)
    \/ \E idx \in 0..(MaxRoutes - 1) : PressRouteOption(idx)
    \/ resetRoute
    \/ \E id \in 1..MaxCalls, error \in PageModernRejections :
          ModernRejects(id, error)
    \/ \E id \in 1..MaxCalls, rs \in PageModernResponses : ModernResponds(id, rs)
    \/ \E id \in 1..MaxCalls, message \in LegacyRejections :
          LegacyRejects(id, message)
    \/ \E id \in 1..MaxCalls, response \in PageLegacyResponses :
          LegacyResponds(id, response)

Spec == Init /\ [][Next]_vars

\* The selector's handler invoked with any index, on the routes the screen
\* resolved.
NextSelector ==
    \/ \E c \in OriginPlaces : GetCurrentLocation(c)
    \/ \E c \in DestinationPlaces : HandleMapPress(c)
    \/ \E idx \in 0..MaxRoutes : SelectRoute(idx)
    \/ \E id \in 1..MaxCalls, error \in PageModernRejections :
          ModernRejects(id, error)
    \/ \E id \in 1..MaxCalls, rs \in PageModernResponses : ModernResponds(id, rs)
    \/ \E id \in 1..MaxCalls, message \in LegacyRejections :
          LegacyRejects(id, message)
    \/ \E id \in 1..MaxCalls, response \in PageLegacyResponses :
          LegacyResponds(id, response)

SpecSelector == Init /\ [][NextSelector]_vars

\* The service called directly, with every payload of the catalogs.
NextService ==
    \/ \E fn \in ServiceFunctions, mode \in {"driving", "walking"} :
          CallService(fn, <<0, 0>>, <<0, 90000>>, mode, <<>>)
    \/ \E id \in 1..MaxCalls, error \in ModernRejections : ModernRejects(id, error)
    \/ \E id \in 1..MaxCalls, rs \in ModernResponses : ModernResponds(id, rs)
    \/ \E id \in 1..MaxCalls, message \in LegacyRejections :
          LegacyRejects(id, message)
    \/ \E id \in 1..MaxCalls, response \in LegacyResponses :
          LegacyResponds(id, response)

SpecService == Init /\ [][NextService]_vars

\* ------------------------------------------ the screen with routes shown
\* The screen as a first resolution left it: driving routes shown between
\* the origin and a destination 0.9 degree east of it, nothing pending.  The
\* calls made from here on are numbered from 1 again.
RoutesShown ==
    \E rs \in PageModernResponses :
        /\ Len(rs) > 0
        /\ origin = <<0, 0>>
        /\ destination = <<0, 90000>>
        /\ travelMode = "driving"
        /\ avoid = <<>>
        /\ routes = AlternativesOutcome[rs].value
        /\ selectedRouteIdx = 0
        /\ routePolyline = AlternativesOutcome[rs].value[1].polyline
        /\ routeDistance = AlternativesOutcome[rs].value[1].distance
        /\ routeDuration = AlternativesOutcome[rs].value[1].duration
        /\ routeLoading = FALSE
        /\ snackbarMessage = ""

InitShown ==
    /\ RoutesShown
    /\ calls = <<>>
    /\ net = {}
    /\ nextId = 1
    /\ done = NoCall
    /\ effect = NoEffect
    /\ util = NoUtil

\* The directions screen from the moment its first routes are shown: the
\* user moves the destination on the map between two places far from the
\* origin and the origin itself, and presses mode and avoid options, the
\* providers answer.
NextShown ==
    \/ \E c \in {<<0, 0>>, <<60, 90>>, <<0, 90000>>} : HandleMapPress(c)
    \/ \E mode \in PageModes : PressTravelMode(mode)
    \/ \E opt \in PageAvoidOptions : PressAvoidOption(opt)
    \/ \E id \in 1..MaxCalls, error \in PageModernRejections :
          ModernRejects(id, error)
    \/ \E id \in 1..MaxCalls, rs \in PageModernResponses : ModernResponds(id, rs)
    \/ \E id \in 1..MaxCalls, message \in LegacyRejections :
          LegacyRejects(id, message)
    \/ \E id \in 1..MaxCalls, response \in PageLegacyResponses :
          LegacyResponds(id, response)

SpecShown == InitShown /\ [][NextShown]_vars

\* ------------------------------------------- utility functions on their own
\* The points polylines are made of, in units of 1e-5 degree: the documented
\* example points, the corners of the coordinate range, points next to the
\* origin on either side.
MaxPoints == 2
PolylinePoints ==
    { <<3850000, -12020000>>, <<4070000, -12095000>>, <<4325200, -12645300>>,
      <<0, 0>>, <<-9000000, 18000000>>, <<9000000, -18000000>>,
      <<1, -1>>, <<-16, 15>> }

\* A coordinate list is encoded as documented.
EncodeCoordinates ==
    /\ util.fn = "decodePolyline" /\ util.stage = "input"
    /\ util' = [util EXCEPT !.encoded = EncodePolyline(util.arg),
                            !.stage = "encoded"]
    /\ UNCHANGED sysVars

\* decodePolyline is applied to the encoded string.
ApplyDecodePolyline ==
    /\ util.fn = "decodePolyline" /\ util.stage = "encoded"
    /\ util' = [util EXCEPT !.result = decodePolyline(util.encoded),
                            !.stage = "applied"]
    /\ UNCHANGED sysVars

InitPolyline ==
    /\ Idle
    /\ util \in { [fn |-> "decodePolyline", stage |-> "input", arg |-> coords,
                   encoded |-> <<>>, result |-> <<>>] :
                  coords \in UNION { [1..n -> PolylinePoints] : n \in 0..MaxPoints } }

NextPolyline ==
    \/ EncodeCoordinates
    \/ ApplyDecodePolyline

SpecPolyline == InitPolyline /\ [][NextPolyline]_vars

\* decodePolyline run one loop iteration at a time, on any string of up to
\* MaxChars characters from DecoderCodes: "?" and "@" end a group (values 0
\* and 1), "~" continues one (low bits 31), " " lies below code 63.
MaxChars == 3
DecoderCodes == {63, 64, 126, 32}

\* b >= 0x20, the condition of both do-while loops; false for NaN.
GroupContinuesPastEnd(isNaN, b) == isNaN \/ b >= 32
GroupContinues(isNaN, b) == ~isNaN /\ b >= 32

\* The test of the while loop: the next pair is read, or the points are
\* returned.
DecoderWhile ==
    /\ util.fn = "decodePolyline" /\ util.stage = "while"
    /\ util' = IF util.index < Len(util.encoded)
               THEN [util EXCEPT !.stage = "lat", !.shift = 0, !.result = 0]
               ELSE [util EXCEPT !.stage = "returned"]
    /\ UNCHANGED sysVars

\* One iteration of the do-while loop that reads the latitude (stage "lat")
\* or the longitude (stage "lng"), with what follows the loop when it exits.
DecoderGroup(stage) ==
    /\ util.fn = "decodePolyline" /\ util.stage = stage
    /\ LET code == CharCodeAt(util.encoded, util.index)
           isNaN == code = NaN
           b == code - 63
           r == BitOr(util.result, ShiftLeft(IF isNaN THEN 0 ELSE And1f(b), util.shift))
       IN util' =
            IF GroupContinues(isNaN, b)
            THEN [util EXCEPT !.index = @ + 1, !.result = r, !.shift = @ + 5]
            ELSE IF stage = "lat"
            THEN [util EXCEPT !.index = @ + 1, !.result = 0, !.shift = 0,
                              !.lat = @ + UnZigZag(r), !.stage = "lng"]
            ELSE [util EXCEPT !.index = @ + 1, !.result = r, !.shift = util.shift + 5,
                              !.lng = @ + UnZigZag(r),
                              !.points = Append(@, <<util.lat, util.lng + UnZigZag(r)>>),
                              !.stage = "while"]
    /\ UNCHANGED sysVars

InitDecoder ==
    /\ Idle
    /\ util \in { [fn |-> "decodePolyline", stage |-> "while", encoded |-> e,
                   index |-> 0, shift |-> 0, result |-> 0, lat |-> 0, lng |-> 0,
                   points |-> <<>>] :
                  e \in UNION { [1..n -> DecoderCodes] : n \in 0..MaxChars } }

NextDecoder ==
    \/ DecoderWhile
    \/ DecoderGroup("lat")
    \/ DecoderGroup("lng")

SpecDecoder == InitDecoder /\ [][NextDecoder]_vars

\* The loop iterations are the steps of one synchronous call: each is taken
\* as long as the function has not returned.
SpecDecoderFair == SpecDecoder /\ WF_vars(NextDecoder)

\* buildRouteRequest on its own, for every avoid list of up to MaxAvoid
\* entries, each one of the three features or a string that is none of them.
MaxAvoid == 3
AvoidEntries == AVOID_OPTIONS \cup {"indoor"}

ApplyBuildRouteRequest ==
    /\ util.fn = "buildRouteRequest" /\ util.stage = "input"
    /\ util' = [util EXCEPT !.result = buildRouteRequest(<<0, 0>>, <<0, 90000>>,
                                           "driving", util.arg, TRUE),
                            !.stage = "applied"]
    /\ UNCHANGED sysVars

InitRequest ==
    /\ Idle
    /\ util \in { [fn |-> "buildRouteRequest", stage |-> "input", arg |-> av,
                   encoded |-> <<>>, result |-> <<>>] :
                  av \in UNION { [1..n -> AvoidEntries] : n \in 0..MaxAvoid } }

NextRequest == ApplyBuildRouteRequest

SpecRequest == InitRequest /\ [][NextRequest]_vars

\* Durations in whole seconds, up to a little over two hours.
MaxSeconds == 7300

ApplyFormatDuration ==
    /\ util.fn = "formatDuration" /\ util.stage = "input"
    /\ util' = [util EXCEPT !.result = formatDuration(util.arg),
                            !.stage = "applied"]
    /\ UNCHANGED sysVars

InitDuration ==
    /\ Idle
    /\ util \in { [fn |-> "formatDuration", stage |-> "input", arg |-> seconds,
                   encoded |-> <<>>, result |-> ""] : seconds \in 0..MaxSeconds }

NextDuration == ApplyFormatDuration

SpecDuration == InitDuration /\ [][NextDuration]_vars

\* Distances in whole meters, as distanceMeters has them.
MaxMeters == 12500

ApplyFormatDistance ==
    /\ util.fn = "formatDistance" /\ util.stage = "input"
    /\ util' = [util EXCEPT !.result = formatDistance(util.arg),
                            !.stage = "applied"]
    /\ UNCHANGED sysVars

InitDistance ==
    /\ Idle
    /\ util \in { [fn |-> "formatDistance", stage |-> "input", arg |-> meters,
                   encoded |-> <<>>, result |-> ""] : meters \in 0..MaxMeters }

NextDistance == ApplyFormatDistance

SpecDistance == InitDistance /\ [][NextDistance]_vars

\* ---------------------------------------------------------------- properties

ModernFailed(c) == c.error # NoError

\* C1: for every request of either entry point, once the Routes v2 attempt
\* has thrown or rejected the Directions adapter has been invoked exactly
\* once by the time the call ends (with routes or with an error), and it is
\* never invoked when the Routes v2 attempt succeeded; a call that has not
\* ended has invoked it once if its first attempt failed and not at all
\* before.
C1_FallbackOnce ==
    /\ done.id # 0 =>
          /\ done.modernCalls = 1
          /\ ModernFailed(done) => done.legacyCalls = 1
          /\ ~ModernFailed(done) =>
                done.legacyCalls = 0 /\ done.outcome = "returned"
          /\ done.outcome = "thrown" => ModernFailed(done) /\ done.legacyCalls = 1
    /\ \A id \in DOMAIN calls :
          /\ calls[id].pc = "modern" =>
                ~ModernFailed(calls[id]) /\ calls[id].legacyCalls = 0
          /\ calls[id].pc = "legacy" =>
                ModernFailed(calls[id]) /\ calls[id].legacyCalls = 1

\* getRouteBetweenPoints returned the legacy route after its Routes v2
\* response failed validation.
C1_Witness ==
    /\ done.fn = "getRouteBetweenPoints"
    /\ done.outcome = "returned"
    /\ done.provider = "legacy"
    /\ done.error.message = "Invalid route response: missing duration"
    /\ done.legacyCalls = 1

AlternativesEnded == done.id # 0 /\ done.fn = "getRoutesWithAlternatives"

\* The list a call returned is the list of exactly one provider call that
\* succeeded.
ReturnsOneProvidersList ==
    \/ /\ done.provider = "modern"
       /\ ~ModernFailed(done)
       /\ done.legacyCalls = 0
       /\ Len(done.value) > 0
       /\ \A i \in 1..Len(done.value) : done.value[i].raw \in ModernRouteCatalog
    \/ /\ done.provider = "legacy"
       /\ ModernFailed(done)
       /\ done.legacyStatus # ""
       /\ done.value = LegacyOutcome[[status |-> done.legacyStatus,
                                      routes |-> done.legacyRoutes,
                                      errorMessage |-> done.legacyErrorMessage]].value
       /\ Len(done.value) > 0

BothFailed ==
    /\ ModernFailed(done)
    /\ done.fallbackMessage # ""
    /\ done.provider = "none"
    /\ done.value = <<>>

\* C2, as stated: every call of getRoutesWithAlternatives either returns the
\* list of exactly one provider call that succeeded, or both attempts failed
\* and the message of the error thrown names the failure message of the
\* Routes v2 attempt (the message of the error caught, or the message the
\* HTTP response gives for it) and the failure message of the Directions
\* attempt.
C2_AsStated ==
    AlternativesEnded =>
        \/ done.outcome = "returned" /\ ReturnsOneProvidersList
        \/ /\ done.outcome = "thrown"
           /\ BothFailed
           /\ \/ Includes(done.message, done.error.message)
              \/ done.error.apiMessage # ""
                 /\ Includes(done.message, done.error.apiMessage)
           /\ Includes(done.message, done.fallbackMessage)

\* C2, amended: every call of getRoutesWithAlternatives either returns the
\* list of exactly one provider call that succeeded, or both attempts failed
\* and the message of the error thrown names the failure message of the
\* Directions attempt and, for the Routes v2 attempt, the message of the
\* error caught unless the HTTP response carried an error object: then it
\* names that object's message, "Unknown error" when it has none, and the
\* HTTP status instead.
C2_OneListOrAggregatedError ==
    AlternativesEnded =>
        \/ done.outcome = "returned" /\ ReturnsOneProvidersList
        \/ /\ done.outcome = "thrown"
           /\ BothFailed
           /\ Includes(done.message, done.fallbackMessage)
           /\ IF done.error.hasResponse /\ done.error.hasError
              THEN /\ Includes(done.message, ToString(done.error.status))
                   /\ IF done.error.apiMessage # ""
                      THEN Includes(done.message, done.error.apiMessage)
                      ELSE Includes(done.message, "Unknown error")
              ELSE Includes(done.message, done.error.message)

\* Both attempts failed, the first with an HTTP response whose error object
\* has a message.
C2_Witness ==
    /\ AlternativesEnded
    /\ done.outcome = "thrown"
    /\ done.error.status = 403
    /\ done.fallbackMessage = "No routes found (Legacy API)"

\* C3: the list one call of getRoutesWithAlternatives returns never mixes
\* providers: all its alternatives come from the Routes v2 response or all
\* come from the Directions response, also when the Routes v2 response
\* failed validation at a later route after earlier ones were normalized.
C3_NeverMixesProviders ==
    AlternativesEnded /\ done.outcome = "returned" =>
        \/ /\ done.provider = "modern"
           /\ \A i \in 1..Len(done.value) :
                 done.value[i].raw \in ModernRouteCatalog
        \/ /\ done.provider = "legacy"
           /\ Len(done.value) = Len(done.legacyRoutes)
           /\ \A i \in 1..Len(done.value) :
                 /\ done.value[i].raw = done.legacyRoutes[i]
                 /\ done.value[i].routeIndex = i - 1

\* The legacy routes were returned after the Routes v2 response failed
\* validation at its second route only.
C3_Witness ==
    /\ AlternativesEnded
    /\ done.outcome = "returned"
    /\ done.provider = "legacy"
    /\ Len(done.modernRoutes) = 2
    /\ AlternativeRouteError(done.modernRoutes[1], 0) = ""
    /\ done.error.message = "Route 2 has invalid polyline data"

\* C4: within one request the Routes v2 and the Directions requests are
\* never in flight together: the Directions request is sent only after the
\* Routes v2 request has completed with a failure.
C4_NeverConcurrent ==
    \A id \in 1..MaxCalls :
        /\ ModernRequestOf(id) = {} \/ LegacyRequestOf(id) = {}
        /\ LegacyRequestOf(id) # {} =>
              /\ id \in DOMAIN calls
              /\ ModernFailed(calls[id])
              /\ calls[id].pc = "legacy"
        /\ ModernRequestOf(id) # {} =>
              id \in DOMAIN calls /\ calls[id].pc = "modern"

\* The Directions request of a call is in flight after its Routes v2 request
\* was rejected.
C4_Witness ==
    \E id \in DOMAIN calls :
        /\ LegacyRequestOf(id) # {}
        /\ ModernRequestOf(id) = {}
        /\ calls[id].error.message = "Network Error"
PageEnded == done.id # 0 /\ done.caller = "page"

\* Both providers answered and neither had a route for the mode.
NoRouteFailure(c) ==
    /\ c.outcome = "thrown"
    /\ c.error.message = "No routes found"
    /\ c.legacyStatus = "ZERO_RESULTS"

\* One provider at least answered that it has no route for the mode; when
\* none did, both failed by transport, HTTP status or authorization.
SomeProviderFoundNoRoutes(c) ==
    \/ c.error.message = "No routes found"
    \/ c.legacyStatus = "ZERO_RESULTS"

\* C5, as stated: when a resolution with a non-driving travel mode fails
\* with a no-route failure, the step that handles the failure starts one
\* resolution with travelMode = "driving"; when a driving resolution fails
\* with a no-route failure, that step starts none.
C5_AsStated ==
    PageEnded /\ NoRouteFailure(done) =>
        IF done.mode # "driving"
        THEN /\ effect.started # 0
             /\ effect.started \in DOMAIN calls
             /\ calls[effect.started].mode = "driving"
        ELSE effect.started = 0

\* C6, as stated: the step that handles a failed resolution switches to
\* driving and starts the driving retry only when the failure means that
\* no routes exist for the mode, never when both providers failed by
\* transport, HTTP status or authorization.
C6_AsStated ==
    PageEnded /\ done.outcome = "thrown" /\ done.switched /\ effect.started # 0 =>
        SomeProviderFoundNoRoutes(done)

\* C7: whenever the route-fetching effect runs with an origin and a
\* destination whose sqrt(dlat^2 + dlng^2) is below 0.001, it takes the
\* too-close branch, which shows the too-close message and starts no
\* provider call; no request of the screen for such a pair is ever in
\* flight.
C7_NoCallWhenTooClose ==
    /\ (/\ effect.branch \in {"tooClose", "fetch"}
        /\ SqrtOfSquaresBelow(Abs(origin[1] - destination[1]),
                              Abs(origin[2] - destination[2]), TooCloseThreshold))
          => /\ effect.branch = "tooClose"
             /\ effect.started = 0
             /\ snackbarMessage = "Destination is too close to starting point"
             /\ ~routeLoading
    /\ effect.branch = "tooClose" => effect.started = 0
    /\ \A id \in DOMAIN calls :
          calls[id].caller = "page" =>
              ~SqrtOfSquaresBelow(Abs(calls[id].origin[1] - calls[id].destination[1]),
                                  Abs(calls[id].origin[2] - calls[id].destination[2]),
                                  TooCloseThreshold)

\* The effect took the too-close branch for two different points 0.00092
\* degree apart.
C7_Witness ==
    /\ effect.branch = "tooClose"
    /\ origin = <<0, 0>>
    /\ destination = <<60, 70>>
    /\ effect.started = 0

\* C8: whenever the distance guard is evaluated, it reports too-close for
\* two identical coordinates and does not report too-close for two
\* coordinates 0.9 degree or more apart on at least one axis.
C8_GuardExtremes ==
    effect.branch \in {"tooClose", "fetch"} =>
        /\ origin = destination => effect.branch = "tooClose"
        /\ (\/ Abs(origin[1] - destination[1]) >= 90000
            \/ Abs(origin[2] - destination[2]) >= 90000)
              => effect.branch = "fetch" /\ effect.started # 0

\* The guard was evaluated on two identical coordinates.
C8_Witness ==
    /\ effect.branch = "tooClose"
    /\ origin # NULL
    /\ origin = destination

C10_SelectionIsLocal ==
    [][(\E idx \in 0..(MaxRoutes - 1) : PressRouteOption(idx)) =>
          /\ UNCHANGED <<calls, net, nextId, routes, origin, destination,
                         travelMode, avoid, routeLoading, snackbarMessage>>
          /\ effect' = NoEffect]_vars

\* The second alternative is selected and displayed.
C10_Witness ==
    /\ hasRoute
    /\ Len(routes) = 2
    /\ selectedRouteIdx = 1
    /\ routePolyline = routes[2].polyline
    /\ routeDistance = routes[2].distance
    /\ routeDuration = routes[2].duration
    /\ routePolyline # routes[1].polyline

\* C11, as stated: a step that re-ran route resolution to its outcome (the
\* too-close short-circuit, or the success or the failure of the resolution
\* the step ended) leaves the selected index at 0.
C11_AsStated ==
    /\ effect.branch = "tooClose" => selectedRouteIdx = 0
    /\ PageEnded => selectedRouteIdx = 0

\* ---------------------------------------------------------------------- C12
\* A route element without a non-empty encoded polyline, a duration or a
\* distance in meters.
LacksRequiredField(route) ==
    \/ route.polyline.encodedPolyline = <<>>
    \/ route.duration = ""
    \/ route.distanceMeters = 0

\* The call the last step ended had a 2xx Routes v2 response with routes.
EndedWithModernRoutes == done.id # 0 /\ Len(done.modernRoutes) > 0

\* C12, as stated: whenever any route element of the Routes v2 response
\* lacks a required field, the Routes v2 attempt of the call failed, for
\* both entry points.
C12_AsStated ==
    EndedWithModernRoutes
    /\ (\E i \in 1..Len(done.modernRoutes) : LacksRequiredField(done.modernRoutes[i]))
    => done.provider # "modern"

\* C12, amended: getRoutesWithAlternatives fails its Routes v2 attempt when
\* any route element lacks a required field (the fallback is tried, the
\* error is that of the first such element, nothing of the response is
\* returned), and what it returns from Routes v2 has one entry per element
\* of the response, in order; getRouteBetweenPoints validates the first
\* element only: its Routes v2 attempt fails exactly when that one lacks a
\* required field, whatever the elements after it.
C12_InvalidRouteFailsAlternatives ==
    EndedWithModernRoutes =>
        LET rs == done.modernRoutes
            bad == {i \in 1..Len(rs) : LacksRequiredField(rs[i])}
        IN /\ done.fn = "getRoutesWithAlternatives" /\ bad # {} =>
                /\ done.provider # "modern"
                /\ done.legacyCalls = 1
                /\ done.error.message =
                       AlternativeRouteError(rs[CHOOSE i \in bad : \A j \in bad : i <= j],
                                             (CHOOSE i \in bad : \A j \in bad : i <= j) - 1)
                /\ \A k \in 1..Len(done.value) : \A i \in 1..Len(rs) :
                       done.value[k].raw # rs[i]
           /\ done.fn = "getRoutesWithAlternatives" /\ done.provider = "modern" =>
                /\ Len(done.value) = Len(rs)
                /\ \A i \in 1..Len(rs) : done.value[i].raw = rs[i]
           /\ done.fn = "getRouteBetweenPoints" =>
                (done.provider = "modern" <=> ~LacksRequiredField(rs[1]))

\* getRoutesWithAlternatives received a valid route followed by an invalid
\* one and ended with the legacy routes.
C12_Witness ==
    /\ EndedWithModernRoutes
    /\ done.fn = "getRoutesWithAlternatives"
    /\ Len(done.modernRoutes) = 2
    /\ ~LacksRequiredField(done.modernRoutes[1])
    /\ LacksRequiredField(done.modernRoutes[2])
    /\ done.provider = "legacy"

\* ---------------------------------------------------------------------- C13
\* C13: decodePolyline applied to the documented encoding of a coordinate
\* list returns that list, point for point, in order and of the same length
\* (coordinates in units of 1e-5 degree); the encoded string "_p~iF~ps|U" is
\* decoded to the single point (38.5, -120.2).
C13_RoundTrip ==
    /\ util.fn = "decodePolyline" /\ util.stage = "applied" =>
          /\ Len(util.result) = Len(util.arg)
          /\ \A i \in 1..Len(util.arg) : util.result[i] = util.arg[i]
          /\ util.encoded = CodeUnits("_p~iF~ps|U") =>
                util.result = << <<3850000, -12020000>> >>
    /\ decodePolyline(CodeUnits("_p~iF~ps|U")) = << <<3850000, -12020000>> >>

\* A list of two points was encoded and decoded, the second one south of the
\* first and east of it (a negative and a positive difference).
C13_Witness ==
    /\ util.fn = "decodePolyline" /\ util.stage = "applied"
    /\ Len(util.arg) = 2
    /\ util.arg[2][1] < util.arg[1][1]
    /\ util.arg[2][2] > util.arg[1][2]
    /\ util.result = util.arg

\* ---------------------------------------------------------------------- C14
DurationApplied == util.fn = "formatDuration" /\ util.stage = "applied"

\* C14: formatDuration writes no hour clause for a duration below 3600
\* seconds (minutes only) and no minutes clause for a duration of whole
\* hours; 1500 gives "25 mins", 5400 "1 hour 30 mins", 3600 "1 hour".
C14_DurationClauses ==
    DurationApplied =>
        LET hours == util.arg \div 3600
            minutes == (util.arg % 3600) \div 60
        IN /\ util.arg < 3600 =>
                /\ ~Includes(util.result, "hour")
                /\ Includes(util.result, ToString(minutes) \o " min")
           /\ hours > 0 /\ minutes = 0 =>
                /\ ~Includes(util.result, "min")
                /\ Includes(util.result, ToString(hours) \o " hour")
           /\ util.arg = 1500 => util.result = "25 mins"
           /\ util.arg = 5400 => util.result = "1 hour 30 mins"
           /\ util.arg = 3600 => util.result = "1 hour"

\* formatDuration was applied to two hours and some seconds: hours, no
\* minutes.
C14_Witness ==
    /\ DurationApplied
    /\ util.arg = 7230
    /\ util.result = "2 hours"

\* ---------------------------------------------------------------------- C15
DistanceApplied == util.fn = "formatDistance" /\ util.stage = "applied"

\* C15: formatDistance writes kilometres with one decimal (a tenth of a
\* kilometre nearest to the distance) exactly when the distance is 1000 m or
\* more, and otherwise the whole meters with the unit m; 500 gives "500 m",
\* 1500 gives "1.5 km".
C15_DistanceUnits ==
    DistanceApplied =>
        LET m == util.arg
        IN /\ m >= 1000 =>
                \E t \in (m \div 100)..(m \div 100 + 1) :
                    /\ 100 * t - m <= 50 /\ m - 100 * t <= 50
                    /\ util.result = ToString(t \div 10) \o "." \o ToString(t % 10)
                                     \o " km"
           /\ m < 1000 => util.result = ToString(m) \o " m"
           /\ m = 500 => util.result = "500 m"
           /\ m = 1500 => util.result = "1.5 km"

\* formatDistance was applied to exactly one kilometre.
C15_Witness ==
    /\ DistanceApplied
    /\ util.arg = 1000
    /\ util.result = "1.0 km"

\* ---------------------------------------------------------------------- C16
\* The provider routes the list returned by the call the last step ended was
\* made from, and the encoded polyline of one of them.
SourceRoutes == IF done.provider = "modern" THEN done.modernRoutes ELSE done.legacyRoutes
SourcePolyline(route) ==
    IF done.provider = "modern" THEN route.polyline.encodedPolyline ELSE route.points

\* C16: a list returned by getRoutesWithAlternatives has exactly one
\* alternative per route of the provider response it was made from, in the
\* provider's order, the alternative at 0-based position i with routeIndex i
\* and with the geometry its own route's polyline encodes, which is not
\* empty; two valid Routes v2 routes give two alternatives.
C16_OneAlternativePerRoute ==
    AlternativesEnded /\ done.outcome = "returned" =>
        /\ Len(SourceRoutes) >= 1
        /\ Len(done.value) = Len(SourceRoutes)
        /\ \A i \in 1..Len(SourceRoutes) :
              /\ done.value[i].routeIndex = i - 1
              /\ done.value[i].raw = SourceRoutes[i]
              /\ Len(done.value[i].polyline) > 0
              /\ EncodePolyline(done.value[i].polyline) = SourcePolyline(SourceRoutes[i])
        /\ done.provider = "modern" /\ Len(done.modernRoutes) = 2 =>
              Len(done.value) = 2

\* getRoutesWithAlternatives returned two alternatives made from two
\* different valid Routes v2 routes.
C16_Witness ==
    /\ AlternativesEnded /\ done.outcome = "returned"
    /\ done.provider = "modern"
    /\ Len(done.modernRoutes) = 2
    /\ done.modernRoutes[1] # done.modernRoutes[2]
    /\ Len(done.value) = 2
    /\ done.value[1].polyline # done.value[2].polyline
    /\ done.value[2].routeIndex = 1

\* ---------------------------------------------------------------------- C17
\* The call the last step ended failed, the screen switched to driving and
\* the effect of the same step started the driving resolution.
RetryStarted ==
    /\ PageEnded
    /\ done.switched
    /\ effect.started # 0

\* C17, as stated: the resolution started by the automatic switch has the
\* origin, the destination and the avoid list of the resolution that failed,
\* driving as its mode, and starts at Routes v2 like every resolution.
C17_AsStated ==
    RetryStarted =>
        LET retry == calls[effect.started]
        IN /\ retry.mode = "driving"
           /\ retry.origin = done.origin
           /\ retry.destination = done.destination
           /\ retry.avoid = done.avoid
           /\ retry.fn = done.fn
           /\ retry.pc = "modern"

\* The state the shown screen starts from, as the screen reaches it from
\* its construction.
ShownIsReached == RoutesShown /\ calls = <<>> /\ net = {}

\* ---------------------------------------------------------------------- C18
\* The messages the catch block shows for a failure that switches nothing:
\* the message of the error getRoutesWithAlternatives threw, or the default
\* for a thrown value that is no Error.
FailureNotices ==
    {AggregatedMessages[k] : k \in DOMAIN AggregatedMessages}
    \cup {"Failed to get route"}

\* C18: a step whose failed resolution switched the screen to driving hands
\* showSnackbar a message that names the mode that failed, and that message
\* is none of the messages shown for a failure without switch (then the
\* error's own message is shown); it is the message on display after the
\* step unless the effect re-run by the switch took the too-close branch,
\* which shows its own.
C18_SwitchIsAnnounced ==
    PageEnded /\ done.outcome = "thrown" =>
        /\ done.switched =>
              /\ travelMode = "driving"
              /\ done.mode # "driving"
              /\ Includes(done.notice, "No " \o done.mode \o " routes found")
              /\ done.notice \notin FailureNotices
              /\ snackbarMessage = done.notice \/ effect.branch = "tooClose"
        /\ ~done.switched =>
              /\ done.notice = done.message
              /\ done.notice \in FailureNotices

\* A walking resolution failed, the screen switched to driving, started the
\* driving resolution and shows the message about walking.
C18_Witness ==
    /\ PageEnded /\ done.switched
    /\ done.mode = "walking"
    /\ travelMode = "driving"
    /\ effect.started # 0
    /\ snackbarMessage = "No walking routes found. Trying driving mode..."

\* ---------------------------------------------------------------------- C19
\* C19: getRoutesWithAlternatives never returns an empty list; a 2xx Routes
\* v2 response without routes is a failure of the Routes v2 attempt, after
\* which the Directions request is made; a Directions response without
\* routes is a failure of the Directions attempt, and the call throws.
C19_NeverEmptyResult ==
    AlternativesEnded =>
        /\ done.outcome = "returned" => Len(done.value) > 0
        /\ done.modernResponded /\ Len(done.modernRoutes) = 0 =>
              /\ ModernFailed(done)
              /\ done.provider # "modern"
              /\ done.legacyCalls = 1
        /\ done.legacyStatus # "" /\ Len(done.legacyRoutes) = 0 =>
              /\ done.outcome = "thrown"
              /\ done.provider = "none"
              /\ done.fallbackMessage # ""

\* Routes v2 answered without routes, then Directions answered without
\* routes, and getRoutesWithAlternatives threw.
C19_Witness ==
    /\ AlternativesEnded
    /\ done.modernResponded /\ Len(done.modernRoutes) = 0
    /\ done.legacyStatus = "ZERO_RESULTS" /\ Len(done.legacyRoutes) = 0
    /\ done.outcome = "thrown"

\* ---------------------------------------------------------------------- C20
\* The call the last step ended had a Directions response.
LegacyAnswered == done.id # 0 /\ done.legacyStatus # ""

\* C20, as stated: the Directions attempt succeeds exactly when the response
\* has a non-empty routes array, and the error raised for a response whose
\* status is not OK carries the error message the provider gave.
C20_AsStated ==
    LegacyAnswered =>
        /\ (done.provider = "legacy") = (Len(done.legacyRoutes) > 0)
        /\ done.legacyStatus # "OK" /\ done.legacyErrorMessage # "" =>
              /\ done.outcome = "thrown"
              /\ Includes(done.fallbackMessage, done.legacyErrorMessage)

\* ---------------------------------------------------------------------- C21
DecoderReturned == util.fn = "decodePolyline" /\ util.stage = "returned"

\* An encoded string that is not a sequence of latitude and longitude pairs:
\* it has a character below code 63, it ends in a character whose
\* continuation bit is set, or the number of its groups is odd.
Malformed(encoded) ==
    \/ \E i \in 1..Len(encoded) : encoded[i] < 63
    \/ Len(encoded) > 0 /\ encoded[Len(encoded)] - 63 >= 32
    \/ Cardinality({i \in 1..Len(encoded) : encoded[i] - 63 < 32}) % 2 = 1

\* The stepwise run returns what the operator decodePolyline gives.
DecoderAgreesWithOperator ==
    DecoderReturned => util.points = decodePolyline(util.encoded)

\* C21, as stated: decodePolyline returns points for well-formed input only;
\* on malformed input it throws.
C21_AsStated == DecoderReturned => ~Malformed(util.encoded)

\* ---------------------------------------------------------------------- C30
\* C30: every run of decodePolyline returns; each iteration of either
\* do-while loop moves the read index forward by one, and an iteration that
\* reads at or past the end of the string is the last of its loop.
C30_DecoderTerminates ==
    /\ <>DecoderReturned
    /\ [][util.stage \in {"lat", "lng"} =>
             /\ util'.index = util.index + 1
             /\ util.index >= Len(util.encoded) => util'.stage # util.stage]_vars
    /\ [](util.index <= Len(util.encoded) + 2)

\* decodePolyline returned from a string that ends while the continuation
\* bit of a group is set, having read past its end.
C30_Witness ==
    /\ DecoderReturned
    /\ Len(util.encoded) = MaxChars
    /\ util.encoded[Len(util.encoded)] = 126
    /\ util.index > Len(util.encoded)

\* ---------------------------------------------------------------------- C22
\* A clause of a duration with the suffix chosen by the test value = 1.
ClauseByEqualsOne(value, unit) ==
    ToString(value) \o " " \o unit \o (IF value = 1 THEN "" ELSE "s")

\* C22, as stated: in the text formatDuration returns, the hour clause and
\* the minute clause each have the singular unit exactly when their value is
\* 1 and the plural unit for every other value, 0 included.
C22_AsStated ==
    DurationApplied =>
        LET hours == util.arg \div 3600
            minutes == (util.arg % 3600) \div 60
        IN util.result =
             IF hours = 0 THEN ClauseByEqualsOne(minutes, "min")
             ELSE IF minutes = 0 THEN ClauseByEqualsOne(hours, "hour")
             ELSE ClauseByEqualsOne(hours, "hour") \o " "
                  \o ClauseByEqualsOne(minutes, "min")

\* ---------------------------------------------------------------------- C23
RequestApplied == util.fn = "buildRouteRequest" /\ util.stage = "applied"

\* The avoid list the request was built for has the feature.
Avoids(feature) == \E i \in 1..Len(util.arg) : util.arg[i] = feature

C24_AsStated ==
    [][done'.id # 0 /\ done'.caller = "page" /\ done'.id < nextId - 1 =>
          UNCHANGED <<routes, selectedRouteIdx, routePolyline, routeDistance,
                      routeDuration>>]_vars

\* ---------------------------------------------------------------------- C25
\* C25: a step whose render ran the route-fetching effect without origin or
\* without destination starts no resolution (no service call, no provider
\* request), does not enter the loading state, and leaves the alternatives
\* empty, the selected index 0, and polyline, distance and duration cleared.
C25_NoResolutionWithoutEndpoints ==
    [][effect'.branch # "none" /\ (origin' = NULL \/ destination' = NULL) =>
          /\ effect'.branch = "clear"
          /\ effect'.started = 0
          /\ nextId' = nextId
          /\ DOMAIN calls' \subseteq DOMAIN calls
          /\ net' \subseteq net
          /\ routeLoading' => routeLoading
          /\ routes' = <<>>
          /\ selectedRouteIdx' = 0
          /\ routePolyline' = <<>>
          /\ routeDistance' = NullText
          /\ routeDuration' = NullText]_vars

\* The route was reset while a resolution was pending: the effect ran
\* without destination and cleared the screen.
C25_Witness ==
    /\ effect.branch = "clear"
    /\ origin # NULL /\ destination = NULL
    /\ DOMAIN calls # {}
    /\ routes = <<>> /\ routeDistance = NullText
    /\ ~routeLoading

\* ---------------------------------------------------------------------- C26
\* C26, as stated: a step that handles the no-route failure of a non-driving
\* resolution whose mode is no longer the selected one leaves the selected
\* travel mode as the user set it.
C26_AsStated ==
    [][/\ done'.id # 0 /\ done'.caller = "page"
       /\ NoRouteFailure(done')
       /\ done'.mode # "driving"
       /\ travelMode # done'.mode
       => travelMode' = travelMode]_vars

\* ---------------------------------------------------------------------- C27
\* Resolutions of the screen are awaiting a provider.
PagePending == \E id \in DOMAIN calls : calls[id].caller = "page"

\* C27, as stated: routeLoading is true in every state in which a resolution
\* of the screen is still awaiting a provider.
C27_AsStated == PagePending => routeLoading

\* ---------------------------------------------------------------------- C28
\* C28: after a step that ended a resolution in failure or ran the too-close
\* branch, when no resolution is pending, the alternatives list and the
\* displayed polyline are empty and distance and duration are null.
C28_FailureLeavesNoRoute ==
    /\ \/ PageEnded /\ done.outcome = "thrown"
       \/ effect.branch = "tooClose"
    /\ ~PagePending
    => /\ routes = <<>>
       /\ routePolyline = <<>>
       /\ routeDistance = NullText
       /\ routeDuration = NullText

\* A walking resolution, which is started from a screen that shows a route,
\* failed at both providers without switch, and nothing is pending.
C28_Witness ==
    /\ PageEnded /\ done.outcome = "thrown"
    /\ done.mode = "walking" /\ ~done.switched
    /\ ~PagePending
    /\ routes = <<>> /\ routeDistance = NullText

\* ---------------------------------------------------------------------- C29
\* C29: whenever the alternatives list is not empty, the selected index is
\* one of its positions and the displayed polyline, distance and duration
\* are those of the alternative at that position.
C29_DisplayedIsSelected ==
    routes # <<>> =>
        /\ selectedRouteIdx \in 0..(Len(routes) - 1)
        /\ routePolyline = routes[selectedRouteIdx + 1].polyline
        /\ routeDistance = routes[selectedRouteIdx + 1].distance
        /\ routeDuration = routes[selectedRouteIdx + 1].duration

\* The second alternative is selected and displayed, on a screen that has
\* issued two resolutions or more.
C29_Witness ==
    /\ Len(routes) = 2
    /\ selectedRouteIdx = 1
    /\ routePolyline = routes[2].polyline
    /\ routePolyline # routes[1].polyline
    /\ nextId > 2

====
